---- MODULE Spec2Model ----
(***************************************************************************)
(* A/B-test library: Variation and VariationsCollection (ABTypes.py) and   *)
(* the three hypothesis tests (ABUtils.py).                                *)
(*                                                                         *)
(* Python values are records tagged by "kind".  Numbers are integers: the  *)
(* float 0. that the constructor stores for an omitted count is the        *)
(* number 0, and quotients are exact rationals <<num, den>>.               *)
(***************************************************************************)
EXTENDS Integers, Sequences, FiniteSets

VARIABLES control, treatments, warnings, v1, v2, last

vars == <<control, treatments, warnings, v1, v2, last>>

(* ------------------------------ bounds -------------------------------- *)
MaxLen == 3          \* longest data sequence handed to Variation
MaxCount == 2        \* largest total / success argument handed to Variation
MaxTreatments == 2   \* longest treatment list explored
MaxArgs == 2         \* most arguments of one add_treatments call
MaxWarnings == 2     \* warnings.warn calls explored per collection
MaxTrials == 3       \* largest total of a variation handed to a test

(* --------------------------- Python values ---------------------------- *)
None == [kind |-> "None"]
PyInt(n) == [kind |-> "int", val |-> n]
PyList(s) == [kind |-> "list", items |-> s]

IsNone(x) == x.kind = "None"

\* bool(x): None, 0 and the empty list are falsy; a Variation defines neither
\* __bool__ nor __len__, so every instance is truthy.
Truthy(x) ==
    CASE x.kind = "None" -> FALSE
      [] x.kind = "int" -> x.val # 0
      [] x.kind = "list" -> x.items # <<>>
      [] OTHER -> TRUE

isinstance_Variation(x) == x.kind = "Variation"

RECURSIVE sum(_)
sum(s) == IF s = <<>> THEN 0 ELSE Head(s) + sum(Tail(s))

set(s) == {s[i] : i \in DOMAIN s}

Min(a, b) == IF a < b THEN a ELSE b

\* s[:k] of a Python list: a negative k counts from the end.
SliceTo(s, k) ==
    IF k >= 0 THEN SubSeq(s, 1, Min(k, Len(s)))
    ELSE IF Len(s) + k > 0 THEN SubSeq(s, 1, Len(s) + k) ELSE <<>>

\* Sequences over S of length lo..hi.
SeqsOf(S, lo, hi) == UNION {[1..n -> S] : n \in lo..hi}

(* ------------------------------ Variation ----------------------------- *)
Raised(exc, msg) == [outcome |-> exc, error |-> msg, value |-> None]
Returned(x) == [outcome |-> "ok", error |-> "", value |-> x]

\* ABTypes.py 20-26: self.data = list(data), or None.
data_convertible(data) == data.kind \in {"None", "list"}

\* A plausible slip: the declared counts win over the data when given.
derive_counts_declared(total, success, data) ==
    [total |-> IF Truthy(total) THEN total.val
               ELSE IF IsNone(data) THEN 0 ELSE Len(data.items),
     success |-> IF Truthy(success) THEN success.val
                 ELSE IF IsNone(data) THEN 0 ELSE sum(data.items)]

\* ABTypes.py 28-33: total and success come from data when data is given,
\* otherwise from the arguments, a falsy argument (None, 0) becoming 0.
derive_counts(total, success, data) ==
    IF ~IsNone(data)
    THEN [total |-> Len(data.items), success |-> sum(data.items)]
    ELSE [total |-> IF Truthy(total) THEN total.val ELSE 0,
          success |-> IF Truthy(success) THEN success.val ELSE 0]

\* ABTypes.py 35: the data check raises unless the set of values is {0, 1}.
data_rejected(data) == ~IsNone(data) /\ set(data.items) # {0, 1}

\* ABTypes.py 9-39: Variation.__init__.
Variation(total, success, data, group) ==
    IF ~data_convertible(data)
    THEN Raised("TypeError", "data must be convertible to list")
    ELSE LET c == derive_counts(total, success, data) IN
         IF data_rejected(data)
         THEN Raised("Exception", "data should contain only 0's and 1's.")
         ELSE IF c.total < c.success
         THEN Raised("Exception", "Conversion rate > 1")
         ELSE Returned([kind |-> "Variation", total |-> c.total,
                        success |-> c.success, data |-> data, group |-> group])

\* ABTypes.py 52-58: Variation.copy.
copy(self) == Variation(PyInt(self.total), PyInt(self.success), self.data, None)

\* ABTypes.py 60-70: Variation.truncate.
truncate(self, size) ==
    IF ~Truthy(self.data)
    THEN Raised("Exception", "Variation has no data inside")
    ELSE Variation(None, None,
                   PyList(SliceTo(self.data.items, 1 + Min(size, self.total))), None)

(* ------------------- Variation: inputs and actions -------------------- *)
CountArgs == {None} \cup {PyInt(n) : n \in 0..MaxCount}
DataArgs == {None, PyInt(1)} \cup {PyList(s) : s \in SeqsOf(0..2, 0, MaxLen)}
SizeArgs == (-1)..(MaxLen + 1)

NoCall == [op |-> "none", args |-> <<>>, pre |-> None,
           outcome |-> "ok", error |-> "", result |-> None]

Call(op, args, pre, r) ==
    [op |-> op, args |-> args, pre |-> pre,
     outcome |-> r.outcome, error |-> r.error, result |-> r.value]

InitVariation ==
    /\ control = None /\ treatments = <<>> /\ warnings = 0
    /\ v1 = None /\ v2 = None /\ last = NoCall

\* The constructor call that starts the object's life.
New(total, success, data) ==
    LET r == Variation(total, success, data, None) IN
    /\ last = NoCall
    /\ last' = Call("__init__", <<total, success, data>>, v1, r)
    /\ v1' = IF r.outcome = "ok" THEN r.value ELSE v1
    /\ UNCHANGED <<control, treatments, warnings, v2>>

Truncate(size) ==
    /\ isinstance_Variation(v1)
    /\ last' = Call("truncate", <<PyInt(size)>>, v1, truncate(v1, size))
    /\ UNCHANGED <<control, treatments, warnings, v1, v2>>

Copy ==
    /\ isinstance_Variation(v1)
    /\ last' = Call("copy", <<>>, v1, copy(v1))
    /\ UNCHANGED <<control, treatments, warnings, v1, v2>>

NextVariation ==
    \/ \E total \in CountArgs, success \in CountArgs, data \in DataArgs :
          New(total, success, data)
    \/ \E size \in SizeArgs : Truncate(size)
    \/ Copy

SpecVariation == InitVariation /\ [][NextVariation]_vars

(* --------------------------- exact quotients -------------------------- *)
Abs(n) == IF n < 0 THEN -n ELSE n

RECURSIVE GCD(_, _)
GCD(a, b) == IF b = 0 THEN a ELSE GCD(b, a % b)

\* The rational n/d (d # 0) in lowest terms with a positive denominator.
Rat(n, d) ==
    LET g == GCD(Abs(n), Abs(d))
        s == IF d < 0 THEN -1 ELSE 1
    IN <<(s * n) \div g, (s * d) \div g>>

RNeg(a) == <<-a[1], a[2]>>
RAdd(a, b) == Rat(a[1] * b[2] + b[1] * a[2], a[2] * b[2])
RSub(a, b) == RAdd(a, RNeg(b))
RMul(a, b) == Rat(a[1] * b[1], a[2] * b[2])
RDiv(a, b) == Rat(a[1] * b[2], a[2] * b[1])
Whole(n) == <<n, 1>>
Sign(a) == IF a[1] > 0 THEN 1 ELSE IF a[1] < 0 THEN -1 ELSE 0

\* ABTypes.py 41-50: Variation.estimate_conversion.
estimate_conversion(self) ==
    IF self.total = 0
    THEN Raised("ZeroDivisionError", "")
    ELSE Returned(Rat(self.success, self.total))

(* ------------------------- VariationsCollection ----------------------- *)
\* What a method call leaves behind: its outcome, the object's fields after
\* it and the number of warnings.warn calls it made.
Done(r, ctl, trs, warned) ==
    [outcome |-> r.outcome, error |-> r.error, value |-> r.value,
     control |-> ctl, treatments |-> trs, warned |-> warned]

\* A plausible slip: the presence check made after the assignment.
add_control_check_late(self, variation) ==
    IF ~isinstance_Variation(variation)
    THEN Done(Raised("TypeError", "Variation object only suits."),
              self.control, self.treatments, 0)
    ELSE Done(Returned(None), variation, self.treatments,
              IF Truthy(variation) THEN 1 ELSE 0)

\* ABTypes.py 106-118: VariationsCollection.add_control.
add_control(self, variation) ==
    IF ~isinstance_Variation(variation)
    THEN Done(Raised("TypeError", "Variation object only suits."),
              self.control, self.treatments, 0)
    ELSE Done(Returned(None), variation, self.treatments,
              IF Truthy(self.control) THEN 1 ELSE 0)

\* A plausible slip: each argument appended as soon as it is validated.
add_treatments_eager(self, args) ==
    IF Len(args) = 0
    THEN Done(Returned(None), self.control, self.treatments, 1)
    ELSE IF \E i \in DOMAIN args : ~isinstance_Variation(args[i])
    THEN LET bad == CHOOSE i \in DOMAIN args :
                      /\ ~isinstance_Variation(args[i])
                      /\ \A j \in 1..(i - 1) : isinstance_Variation(args[j])
         IN Done(Raised("TypeError", "Objects of Variation type only suit."),
                 self.control, self.treatments \o SubSeq(args, 1, bad - 1), 0)
    ELSE Done(Returned(None), self.control, self.treatments \o args, 0)

\* ABTypes.py 120-133: VariationsCollection.add_treatments.
add_treatments(self, args) ==
    IF Len(args) = 0
    THEN Done(Returned(None), self.control, self.treatments, 1)
    ELSE IF \E i \in DOMAIN args : ~isinstance_Variation(args[i])
    THEN Done(Raised("TypeError", "Objects of Variation type only suit."),
              self.control, self.treatments, 0)
    ELSE Done(Returned(None), self.control, self.treatments \o args, 0)

\* ABTypes.py 135-139: VariationsCollection.delete_control.
delete_control(self) == Done(Returned(None), None, self.treatments, 0)

\* del s[i] of a Python list (i counted from 0, a negative i from the end).
IndexInRange(s, i) == -Len(s) <= i /\ i < Len(s)
DelItem(s, i) ==
    LET p == IF i >= 0 THEN i + 1 ELSE Len(s) + i + 1
    IN SubSeq(s, 1, p - 1) \o SubSeq(s, p + 1, Len(s))

\* A plausible slip: the bound test written n >= len(self.treatments).
delete_treatment_off_by_one(self, n) ==
    IF n >= Len(self.treatments)
    THEN Done(Returned(None), self.control, self.treatments, 1)
    ELSE IF ~IndexInRange(self.treatments, n - 1)
    THEN Done(Raised("IndexError", "list assignment index out of range"),
              self.control, self.treatments, 0)
    ELSE Done(Returned(None), self.control, DelItem(self.treatments, n - 1), 0)

\* ABTypes.py 141-151: VariationsCollection.delete_treatment.
delete_treatment(self, n) ==
    IF n > Len(self.treatments)
    THEN Done(Returned(None), self.control, self.treatments, 1)
    ELSE IF ~IndexInRange(self.treatments, n - 1)
    THEN Done(Raised("IndexError", "list assignment index out of range"),
              self.control, self.treatments, 0)
    ELSE Done(Returned(None), self.control, DelItem(self.treatments, n - 1), 0)

\* ABTypes.py 166-174: one column of info_dict, a row of the returned frame.
Row(label, number, v) ==
    [label |-> label, number |-> number, success |-> v.success,
     total |-> v.total, rate |-> estimate_conversion(v)]

\* A plausible slip: the control column added after the treatments.
info_dict_control_last(self) ==
    [i \in 1..Len(self.treatments) |-> Row("Treatment", i, self.treatments[i])]
    \o (IF ~IsNone(self.control) THEN <<Row("Control", 0, self.control)>> ELSE <<>>)

\* ABTypes.py 164-174: info_dict in insertion order.
info_dict(self) ==
    (IF ~IsNone(self.control) THEN <<Row("Control", 0, self.control)>> ELSE <<>>)
    \o [i \in 1..Len(self.treatments) |-> Row("Treatment", i, self.treatments[i])]

\* ABTypes.py 153-177: VariationsCollection.describe.
describe(self) ==
    IF IsNone(self.control) /\ Len(self.treatments) = 0
    THEN Done(Returned(None), self.control, self.treatments, 1)
    ELSE LET rows == info_dict(self) IN
         IF \E i \in DOMAIN rows : rows[i].rate.outcome # "ok"
         THEN Done(Raised("ZeroDivisionError", ""),
                   self.control, self.treatments, 0)
         ELSE Done(Returned([kind |-> "DataFrame",
                             rows |-> [i \in DOMAIN rows |->
                                         [label |-> rows[i].label,
                                          number |-> rows[i].number,
                                          Success |-> rows[i].success,
                                          Total |-> rows[i].total,
                                          Conversion_rate |-> rows[i].rate.value]]]),
                   self.control, self.treatments, 0)

\* ABTypes.py 90-104: VariationsCollection.__init__.
VariationsCollection(args) ==
    LET empty == [control |-> None, treatments |-> <<>>] IN
    IF Len(args) = 0 THEN Done(Returned(None), None, <<>>, 0)
    ELSE LET a == add_control(empty, args[1]) IN
         IF a.outcome # "ok" \/ Len(args) = 1 THEN a
         ELSE LET b == add_treatments(a, Tail(args)) IN
              Done(b, b.control, b.treatments, a.warned + b.warned)

(* ---------------- VariationsCollection: inputs and actions ------------ *)
\* The variations handed to a collection: Variation() with no trials, one
\* built from counts and one built from data.
Pool ==
    {Variation(a[1], a[2], a[3], None).value :
        a \in {<<None, None, None>>,
               <<PyInt(2), PyInt(1), None>>,
               <<None, None, PyList(<<0, 1, 1>>)>>}}
Objects == Pool \cup {None}
NumberArgs == (-(MaxTreatments + 1))..(MaxTreatments + 1)

Self == [control |-> control, treatments |-> treatments, warnings |-> warnings]

Init ==
    /\ \E args \in SeqsOf(Pool, 0, MaxArgs) :
          LET r == VariationsCollection(args) IN
          /\ control = r.control
          /\ treatments = r.treatments
          /\ warnings = r.warned
    /\ v1 = None /\ v2 = None /\ last = NoCall

Apply(op, args, r) ==
    /\ warnings < MaxWarnings
    /\ control' = r.control
    /\ treatments' = r.treatments
    /\ warnings' = warnings + r.warned
    /\ last' = Call(op, args, Self, r)
    /\ UNCHANGED <<v1, v2>>

AddControl(variation) ==
    Apply("add_control", <<variation>>, add_control(Self, variation))

AddTreatments(args) ==
    /\ Len(treatments) + Len(args) <= MaxTreatments
    /\ Apply("add_treatments", args, add_treatments(Self, args))

DeleteControl == Apply("delete_control", <<>>, delete_control(Self))

DeleteTreatment(n) ==
    Apply("delete_treatment", <<PyInt(n)>>, delete_treatment(Self, n))

Describe == Apply("describe", <<>>, describe(Self))

Next ==
    \/ \E variation \in Objects : AddControl(variation)
    \/ \E args \in SeqsOf(Objects, 0, MaxArgs) : AddTreatments(args)
    \/ DeleteControl
    \/ \E n \in NumberArgs : DeleteTreatment(n)
    \/ Describe

Spec == Init /\ [][Next]_vars

(* --------------------------- hypothesis tests ------------------------- *)
\* pe / sqrt(var) in numpy's arithmetic, which raises nothing: not a number
\* for a negative variance or 0/0, an infinity for a zero variance, and
\* otherwise the number of the sign of pe whose square is pe^2 / var.
Statistic(pe, var) ==
    IF var[1] < 0 \/ (var[1] = 0 /\ pe[1] = 0)
    THEN [kind |-> "nan", sign |-> 0, square |-> Whole(0)]
    ELSE IF var[1] = 0
    THEN [kind |-> "inf", sign |-> Sign(pe), square |-> Whole(0)]
    ELSE [kind |-> "finite", sign |-> Sign(pe),
          square |-> RDiv(RMul(pe, pe), var)]

\* The pair a z-test returns, with the two locals it is computed from.
TestResult(pe, var) ==
    LET z == Statistic(pe, var) IN
    Returned([z |-> z, p_value |-> [norm_sf |-> z], pe |-> pe, var |-> var])

\* ABUtils.py 28-37: z_binomial_superiority_test.
z_binomial_superiority_test(a, b, delta) ==
    LET p1 == estimate_conversion(a)
        p2 == estimate_conversion(b) IN
    IF p1.outcome # "ok" THEN p1
    ELSE IF p2.outcome # "ok" THEN p2
    ELSE LET p1_hat == p1.value
             p2_hat == p2.value
             one == Whole(1)
             pe == RSub(RSub(p1_hat, p2_hat), delta)
             var == RAdd(RDiv(RMul(p1_hat, RSub(one, p1_hat)), Whole(a.total)),
                         RDiv(RMul(p2_hat, RSub(one, p2_hat)), Whole(b.total)))
         IN TestResult(pe, var)

\* A plausible slip: the sign of the second half of the correction term.
point_estimation_sum(m1, n1, m2, n2) ==
    RAdd(RSub(Rat(m1, n1), Rat(m2, n2)),
         RMul(Rat(1, 2), RAdd(Rat(1, n1), Rat(1, n2))))

\* ABUtils.py 63: pe = m1 / n1 - m2 / n2 + 0.5 * (1 / n1 - 1 / n2).
point_estimation(m1, n1, m2, n2) ==
    RAdd(RSub(Rat(m1, n1), Rat(m2, n2)),
         RMul(Rat(1, 2), RSub(Rat(1, n1), Rat(1, n2))))

\* ABUtils.py 64-67: the pooled variance estimation.
variance_estimation(m1, n1, m2, n2) ==
    RMul(RDiv(RMul(Rat(m1 + m2, n1 + n2), Whole(n1 + n2 - m1 - m2)),
              Whole(n1 + n2)),
         RAdd(Rat(1, n1), Rat(1, n2)))

\* A plausible slip: a zero total answered with a not-a-number statistic, as
\* numpy's division would, instead of Python's ZeroDivisionError.
z_binomial_test_nan(a, b) ==
    IF a.total = 0 \/ b.total = 0 \/ a.total + b.total = 0
    THEN TestResult(Whole(0), Whole(-1))
    ELSE TestResult(point_estimation(a.success, a.total, b.success, b.total),
                    variance_estimation(a.success, a.total, b.success, b.total))

\* ABUtils.py 59-71: z_binomial_test; Python's / raises on a zero divisor.
z_binomial_test(a, b) ==
    LET m1 == a.success
        m2 == b.success
        n1 == a.total
        n2 == b.total IN
    IF n1 = 0 \/ n2 = 0 \/ n1 + n2 = 0
    THEN Raised("ZeroDivisionError", "division by zero")
    ELSE TestResult(point_estimation(m1, n1, m2, n2),
                    variance_estimation(m1, n1, m2, n2))

\* ABUtils.py 95: scipy's fisher_exact(table, 'greater') on [[a, b], [c, d]]:
\* it refuses a negative entry, answers (nan, 1.0) when a row or a column sums
\* to zero, and otherwise gives the odds ratio a*d / (b*c) with the exact
\* upper-tail probability.
fisher_exact(table) ==
    LET a == table[1][1]
        b == table[1][2]
        c == table[2][1]
        d == table[2][2] IN
    IF a < 0 \/ b < 0 \/ c < 0 \/ d < 0
    THEN Raised("ValueError", "All values in table must be nonnegative.")
    ELSE IF a + b = 0 \/ c + d = 0 \/ a + c = 0 \/ b + d = 0
    THEN Returned([statistic |-> [kind |-> "nan", value |-> Whole(0)],
                   p_value |-> [kind |-> "one", table |-> table]])
    ELSE Returned([statistic |-> IF b * c = 0
                                 THEN [kind |-> "inf", value |-> Whole(0)]
                                 ELSE [kind |-> "finite", value |-> Rat(a * d, b * c)],
                   p_value |-> [kind |-> "hypergeom_sf", table |-> table]])

\* ABUtils.py 89-95: f_binomial_test.
f_binomial_test(a, b) ==
    fisher_exact(<<<<a.success, b.success>>,
                   <<a.total - a.success, b.total - b.success>>>>)

(* ------------------- hypothesis tests: inputs and actions ------------- *)
\* ABUtils.py 101-105: the variations the driver builds from two counts.
TestPool ==
    {r.value : r \in {x \in {Variation(PyInt(t), PyInt(s), None, None) :
                                t \in 0..MaxTrials, s \in 0..MaxTrials} :
                        x.outcome = "ok"}}
Deltas == {Whole(0), Rat(1, 10)}

InitTests ==
    /\ control = None /\ treatments = <<>> /\ warnings = 0
    /\ v1 \in TestPool /\ v2 \in TestPool /\ last = NoCall

\* ABUtils.py 110-111: test(var1, var2) and test(var2, var1).
BothWays(op, args, fwd, rev) ==
    /\ last' = [op |-> op, args |-> args, pre |-> None,
                outcome |-> fwd.outcome, error |-> fwd.error,
                result |-> [fwd |-> fwd, rev |-> rev]]
    /\ UNCHANGED <<control, treatments, warnings, v1, v2>>

ZSuperiority(delta) ==
    BothWays("z_binomial_superiority_test", <<v1, v2, delta>>,
             z_binomial_superiority_test(v1, v2, delta),
             z_binomial_superiority_test(v2, v1, delta))

ZBinomial ==
    BothWays("z_binomial_test", <<v1, v2>>,
             z_binomial_test(v1, v2), z_binomial_test(v2, v1))

FBinomial ==
    BothWays("f_binomial_test", <<v1, v2>>,
             f_binomial_test(v1, v2), f_binomial_test(v2, v1))

NextTests ==
    \/ \E delta \in Deltas : ZSuperiority(delta)
    \/ ZBinomial
    \/ FBinomial

SpecTests == InitTests /\ [][NextTests]_vars

(* ------------------------ Variation: properties ----------------------- *)
Binary(items) == \A i \in DOMAIN items : items[i] \in {0, 1}
Ones(items) == Cardinality({i \in DOMAIN items : items[i] = 1})

ConstructedFromList ==
    /\ last.op = "__init__"
    /\ last.args[3].kind = "list"

\* C1: constructing a Variation from a non-empty data sequence fails with the
\* validation error if and only if the sequence holds a value other than 0 or
\* 1; constant all-0 and all-1 sequences are accepted.
C1_RejectsOnlyNonBinary ==
    (ConstructedFromList /\ last.args[3].items # <<>>)
        => /\ (last.outcome = "Exception") <=> ~Binary(last.args[3].items)
           /\ (last.outcome = "ok") <=> Binary(last.args[3].items)

\* C2: truncate(size) with size >= 0 on a Variation holding data returns a new
\* Variation whose data is the first min(size, total) + 1 elements of the
\* source's data (all of it when size >= total), and leaves the source as it was.
C2_TruncatePrefix ==
    (last.op = "truncate" /\ Truthy(last.pre.data) /\ last.args[1].val >= 0)
        => LET src == last.pre.data.items
               k == Min(Min(last.args[1].val, last.pre.total) + 1, Len(src)) IN
           /\ last.outcome = "ok"
           /\ isinstance_Variation(last.result)
           /\ last.result.data = PyList([i \in 1..k |-> src[i]])
           /\ v1 = last.pre

\* C8: a Variation successfully constructed with data has total = len(data) and
\* success = the number of ones in data, whatever total and success were passed
\* alongside; with data supplied the success > total check never fires.
C8_CountsFromData ==
    (last.op = "__init__" /\ ~IsNone(last.args[3]))
        => /\ last.error # "Conversion rate > 1"
           /\ last.outcome = "ok"
                => /\ last.result.total = Len(last.args[3].items)
                   /\ last.result.success = Ones(last.args[3].items)
                   /\ last.result.data = last.args[3]

\* A Variation built from data while conflicting counts (success > total,
\* both different from what the data gives) were passed alongside.
C8_Witness ==
    /\ ConstructedFromList
    /\ last.outcome = "ok"
    /\ last.args[1] = PyInt(1)
    /\ last.args[2] = PyInt(2)
    /\ last.result.total = 3
    /\ last.result.success = 1

(* ------------------ VariationsCollection: properties ------------------ *)
Present(x) == ~IsNone(x)
Number == last.args[1].val
Before == last.pre

\* C3: delete_treatment(n) with 1 <= n <= count removes exactly the treatment
\* at position n (counted from 1) and keeps the others in order; with n > count
\* it warns and leaves the list as it was; the control is untouched either way.
C3_DeleteTreatment ==
    last.op = "delete_treatment" =>
        LET old == Before.treatments
            count == Len(old) IN
        /\ (1 <= Number /\ Number <= count) =>
              /\ last.outcome = "ok"
              /\ Len(treatments) = count - 1
              /\ \A i \in 1..(count - 1) :
                    treatments[i] = old[IF i < Number THEN i ELSE i + 1]
              /\ control = Before.control
        /\ Number > count =>
              /\ last.outcome = "ok"
              /\ warnings = Before.warnings + 1
              /\ treatments = old
              /\ control = Before.control

\* The first of two different treatments deleted, a control being present.
C3_Witness ==
    /\ last.op = "delete_treatment"
    /\ Number = 1
    /\ Len(Before.treatments) = 2
    /\ Before.treatments[1] # Before.treatments[2]
    /\ treatments = <<Before.treatments[2]>>
    /\ Present(control)

AddControlReturned(call) ==
    call.op = "add_control" /\ isinstance_Variation(call.args[1])

\* C4: add_control(v) with v a Variation makes v the control, leaves the
\* treatments alone and warns exactly once if a control was present before the
\* call, not at all otherwise; seeding through the constructor warns of
\* nothing; two add_control calls in a row on a collection without control
\* warn exactly once in all and leave the second control.
C4_AddControl ==
    /\ [](/\ last = NoCall => warnings = 0
          /\ AddControlReturned(last) =>
                /\ last.outcome = "ok"
                /\ control = last.args[1]
                /\ treatments = Before.treatments
                /\ warnings = Before.warnings
                                + (IF Present(Before.control) THEN 1 ELSE 0))
    /\ [][(/\ AddControlReturned(last)
           /\ ~Present(Before.control)
           /\ AddControlReturned(last'))
          => /\ warnings' = Before.warnings + 1
             /\ control' = last'.args[1]
             /\ treatments' = Before.treatments]_vars

\* A control replaced by a different one, with the one warning of the run.
C4_Witness ==
    /\ AddControlReturned(last)
    /\ Present(Before.control)
    /\ Before.control # control
    /\ Before.warnings = 0
    /\ warnings = 1

AllVariations(args) == \A i \in DOMAIN args : isinstance_Variation(args[i])

\* C5: add_treatments(a1..ak), k >= 1, appends a1..ak in call order if every
\* argument is a Variation, and otherwise raises TypeError leaving treatments
\* and control exactly as they were; with k = 0 it warns and changes nothing.
C5_AddTreatments ==
    last.op = "add_treatments" =>
        /\ control = Before.control
        /\ (Len(last.args) >= 1 /\ AllVariations(last.args)) =>
              /\ last.outcome = "ok"
              /\ treatments = Before.treatments \o last.args
        /\ (Len(last.args) >= 1 /\ ~AllVariations(last.args)) =>
              /\ last.outcome = "TypeError"
              /\ treatments = Before.treatments
        /\ Len(last.args) = 0 =>
              /\ last.outcome = "ok"
              /\ warnings = Before.warnings + 1
              /\ treatments = Before.treatments

\* A call whose first argument is a Variation and whose second is not.
C5_Witness ==
    /\ last.op = "add_treatments"
    /\ Len(last.args) = 2
    /\ isinstance_Variation(last.args[1])
    /\ ~isinstance_Variation(last.args[2])
    /\ last.outcome = "TypeError"
    /\ treatments = Before.treatments

\* The row of variation v, labelled label/number.
IsRowOf(row, label, number, v) ==
    /\ row.label = label
    /\ row.number = number
    /\ row.Success = v.success
    /\ row.Total = v.total
    /\ row.Conversion_rate[2] > 0
    /\ row.Conversion_rate[1] * v.total = v.success * row.Conversion_rate[2]

\* One row per present variation: the control first, then the treatments in
\* insertion order.
IsTableOf(frame, ctl, trs) ==
    LET c == IF Present(ctl) THEN 1 ELSE 0 IN
    /\ frame.kind = "DataFrame"
    /\ Len(frame.rows) = c + Len(trs)
    /\ Present(ctl) => IsRowOf(frame.rows[1], "Control", 0, ctl)
    /\ \A i \in 1..Len(trs) : IsRowOf(frame.rows[c + i], "Treatment", i, trs[i])

Unchanged == control = Before.control /\ treatments = Before.treatments
Empty == ~Present(control) /\ treatments = <<>>
SomeWithoutTrials ==
    \/ Present(control) /\ control.total = 0
    \/ \E i \in DOMAIN treatments : treatments[i].total = 0

\* C6 as stated: describe() leaves the collection unchanged and returns
\* nothing, with a warning, when the collection is empty, and otherwise the
\* table of (success, total, success/total) rows, control first.
C6_DescribeAlwaysReturns ==
    last.op = "describe" =>
        /\ Unchanged
        /\ last.outcome = "ok"
        /\ Empty => IsNone(last.result) /\ warnings = Before.warnings + 1
        /\ ~Empty => IsTableOf(last.result, control, treatments)

\* C6 amended: as stated when every present variation has a nonzero total; if
\* some present variation has total 0, describe() raises ZeroDivisionError and
\* returns no table; the collection is unchanged in every case.
C6_Describe ==
    last.op = "describe" =>
        /\ Unchanged
        /\ Empty =>
              /\ last.outcome = "ok"
              /\ IsNone(last.result)
              /\ warnings = Before.warnings + 1
        /\ (~Empty /\ ~SomeWithoutTrials) =>
              /\ last.outcome = "ok"
              /\ IsTableOf(last.result, control, treatments)
              /\ warnings = Before.warnings
        /\ SomeWithoutTrials =>
              /\ last.outcome = "ZeroDivisionError"
              /\ IsNone(last.result)

\* A table of three rows: a control and two different treatments.
C6_Witness ==
    /\ last.op = "describe"
    /\ last.outcome = "ok"
    /\ Present(control)
    /\ Len(treatments) = 2
    /\ treatments[1] # treatments[2]
    /\ Len(last.result.rows) = 3

\* C10: delete_treatment(n) with n <= 0 names no treatment, so it removes
\* none: treatments and control are as they were.
C10_NoTreatmentNoDeletion ==
    (last.op = "delete_treatment" /\ Number <= 0) =>
        /\ treatments = Before.treatments
        /\ control = Before.control

(* ---------------------- hypothesis tests: properties ------------------ *)
Tests == {"z_binomial_superiority_test", "z_binomial_test", "f_binomial_test"}
ZTests == {"z_binomial_superiority_test", "z_binomial_test"}
SomeTotalZero == v1.total = 0 \/ v2.total = 0
Fwd == last.result.fwd
Rev == last.result.rev

\* C7 as stated: each of the three tests, given a variation with total = 0,
\* ends in a division-by-zero error and returns no (statistic, p-value) pair.
C7_AllTestsRaise ==
    (last.op \in Tests /\ SomeTotalZero)
        => Fwd.outcome = "ZeroDivisionError" /\ Rev.outcome = "ZeroDivisionError"

\* C7 amended: the two z-tests, given a variation with total = 0, end in a
\* division-by-zero error and return no pair; f_binomial_test divides
\* nothing and returns what fisher_exact answers for the table.
C7_ZTestsRaise ==
    /\ (last.op \in ZTests /\ SomeTotalZero)
          => /\ Fwd.outcome = "ZeroDivisionError" /\ IsNone(Fwd.value)
             /\ Rev.outcome = "ZeroDivisionError" /\ IsNone(Rev.value)
    /\ (last.op = "f_binomial_test")
          => Fwd.outcome # "ZeroDivisionError" /\ Rev.outcome # "ZeroDivisionError"

\* The pooled z-test on a first variation with trials and a second without.
C7_Witness ==
    /\ last.op = "z_binomial_test"
    /\ v1.total > 0
    /\ v2.total = 0
    /\ Fwd.outcome = "ZeroDivisionError"

\* C9: for variations with positive totals and a nonzero pooled variance the
\* pooled z-test run both ways gives point estimates that are negatives of
\* each other and the same variance, hence statistics that are negatives.
C9_Antisymmetric ==
    (last.op = "z_binomial_test" /\ v1.total > 0 /\ v2.total > 0)
        => /\ Fwd.outcome = "ok" /\ Rev.outcome = "ok"
           /\ (Fwd.value.var[1] # 0 \/ Rev.value.var[1] # 0)
                => /\ Fwd.value.pe[1] = -Rev.value.pe[1]
                   /\ Fwd.value.pe[2] = Rev.value.pe[2]
                   /\ Fwd.value.var = Rev.value.var
                   /\ Fwd.value.z.kind = "finite" /\ Rev.value.z.kind = "finite"
                   /\ Fwd.value.z.sign = -Rev.value.z.sign
                   /\ Fwd.value.z.square = Rev.value.z.square

\* Two variations of different totals, so that the correction term counts,
\* with a nonzero statistic.
C9_Witness ==
    /\ last.op = "z_binomial_test"
    /\ v1.total > v2.total /\ v2.total > 0
    /\ Fwd.outcome = "ok"
    /\ Fwd.value.z.kind = "finite"
    /\ Fwd.value.z.sign = 1
    /\ Rev.value.z.sign = -1

====
